---- MODULE Spec2Model ----
(***************************************************************************)
(* A model of heic_converter.py: HeicConverter.main, convert_heic,         *)
(* find_heic_files and remove_exif_orientation over a small file system.   *)
(*                                                                         *)
(* A file or directory name is a sequence of one-character strings, a path *)
(* is a sequence of names (its components below the file-system root), and *)
(* the empty sequence stands for an argument that was not given (None).    *)
(***************************************************************************)
EXTENDS Integers, Sequences, FiniteSets, TLC

VARIABLES
    args,        \* the parsed command line (parse_args)
    files,       \* the regular files that exist
    corrupt,     \* the files the decoder cannot read
    pc,          \* position of main
    cpc,         \* position inside the running convert_heic call
    cur,         \* input_file of the running convert_heic call
    image,       \* the decoded image held by the running call (its EXIF mapping)
    heic_files,  \* the list find_heic_files returned
    idx,         \* enumerate index of the batch loop (1-based)
    exc,         \* the exception that ended main, or "none"
    attempts,    \* history: one record per convert_heic call, in order
    warnings,    \* history: one entry per "Untested format" warning
    saves,       \* history: one record per image.save call, in order
    deleted,     \* history: the files convert_heic has unlinked
    removedAt,   \* history: where in the running call a concurrent process removed cur
    found,       \* history: find_heic_files has returned
    files0,      \* history: the files that existed when main started
    exif_in,     \* remove_exif_orientation alone: its argument
    exif_out,    \* remove_exif_orientation alone: its result
    epc          \* remove_exif_orientation alone: "call" or "returned"

vars == <<args, files, corrupt, pc, cpc, cur, image, heic_files, idx, exc,
          attempts, warnings, saves, deleted, removedAt, found, files0,
          exif_in, exif_out, epc>>

mainVars == <<args, files, corrupt, pc, cpc, cur, image, heic_files, idx, exc,
              attempts, warnings, saves, deleted, removedAt, found, files0>>

exifVars == <<exif_in, exif_out, epc>>

(***************************************************************************)
(* Bounds.                                                                 *)
(***************************************************************************)
\* the largest number of files the initial file system holds
MaxFiles == 3
\* the largest number of tags of an EXIF mapping given to remove_exif_orientation
MaxTags == 3

(***************************************************************************)
(* Strings.                                                                *)
(***************************************************************************)
None == <<>>

\* str.lower on one character
LowerChar(c) ==
    CASE c = "H" -> "h" [] c = "E" -> "e" [] c = "I" -> "i" [] c = "C" -> "c"
      [] c = "J" -> "j" [] c = "P" -> "p" [] c = "G" -> "g" [] c = "N" -> "n"
      [] c = "B" -> "b" [] c = "M" -> "m" [] c = "X" -> "x" [] c = "Y" -> "y"
      [] OTHER -> c

\* str.lower
Lower(s) == [i \in 1..Len(s) |-> LowerChar(s[i])]

\* str.replace('.', '_'): every occurrence
ReplaceDots(s) == [i \in 1..Len(s) |-> IF s[i] = "." THEN "_" ELSE s[i]]

\* str.endswith
EndsWith(s, suffix) ==
    /\ Len(s) >= Len(suffix)
    /\ SubSeq(s, Len(s) - Len(suffix) + 1, Len(s)) = suffix

Last(s) == s[Len(s)]
Front(s) == SubSeq(s, 1, Len(s) - 1)

\* Path(p).name and Path(p).parent
PathName(p) == IF p = <<>> THEN <<>> ELSE Last(p)
PathParent(p) == IF p = <<>> THEN <<>> ELSE Front(p)

Range(s) == {s[i] : i \in 1..Len(s)}

Perms(S) ==
    {s \in [1..Cardinality(S) -> S] : \A i, j \in DOMAIN s : i # j => s[i] # s[j]}

(***************************************************************************)
(* The file system and the command lines.                                  *)
(***************************************************************************)
dIn == <<"i", "n">>
dA == <<"a", ".", "h", "e", "i", "c">>
dB == <<"b">>
dOut == <<"o", "u", "t">>
dNowhere == <<"n", "o">>

nXheic == <<"x", ".", "h", "e", "i", "c">>
nXYHEIC == <<"x", ".", "y", ".", "H", "E", "I", "C">>
nXjpg == <<"x", ".", "j", "p", "g">>
nHeic == <<"h", "e", "i", "c">>

\* the directories that exist; in/a.heic is a directory whose name ends in .heic
dirs == {<<dIn>>, <<dIn, dA>>, <<dIn, dB>>, <<dOut>>}

F1 == <<dIn, nXheic>>
F2 == <<dIn, dA, nXheic>>
F3 == <<dIn, dB, nXYHEIC>>
F4 == <<dIn, dB, nXjpg>>
F5 == <<dIn, nHeic>>

CandidateFiles == {F1, F2, F3, F4, F5}

fJpeg == <<"j", "p", "e", "g">>
fPNG == <<"P", "N", "G">>
fBmp == <<"b", "m", "p">>
fX == <<"x">>

Formats == {fJpeg, fPNG, fBmp, fX}

InputFileArgs == {None, F1, <<dIn>>}
InputDirArgs == {None, <<dIn>>, <<dIn, dA>>, <<dNowhere>>, F5}
OutputPathArgs == {None, <<dOut>>, <<dNowhere>>}

ArgSpace ==
    [input_file : InputFileArgs, input_dir : InputDirArgs,
     output_path : OutputPathArgs, format : Formats, delete : BOOLEAN]

\* os.path.isfile, os.path.isdir
IsFile(p, fs) == p \in fs
IsDir(p) == p \in dirs

(***************************************************************************)
(* EXIF.                                                                   *)
(***************************************************************************)
TagIds == {271, 274, 306, 40000}
TagValues == {1, 6}

\* PIL.ExifTags.TAGS.get(tag); 40000 is a tag the table does not know
TagName(tag) ==
    CASE tag = 271 -> "Make"
      [] tag = 274 -> "Orientation"
      [] tag = 306 -> "DateTime"
      [] OTHER -> "None"

EmptyExif == [t \in {} |-> 1]

remove_exif_orientation_keep(exif_data) == exif_data

\* the loop over exif_data.keys(): the first key the table names Orientation is
\* popped and the mapping returned at once; without one the mapping is returned as is
remove_exif_orientation(exif_data) ==
    IF \E tag \in DOMAIN exif_data : TagName(tag) = "Orientation"
    THEN LET tag == CHOOSE t \in DOMAIN exif_data : TagName(t) = "Orientation"
         IN  [t \in DOMAIN exif_data \ {tag} |-> exif_data[t]]
    ELSE exif_data

\* image.getexif() of each file of the file system
FileExif(f) ==
    CASE f = F1 -> (271 :> 1 @@ 274 :> 6)
      [] f = F2 -> (274 :> 1)
      [] f = F3 -> (271 :> 6 @@ 306 :> 1 @@ 40000 :> 6)
      [] OTHER -> EmptyExif

(***************************************************************************)
(* convert_heic: the helpers.                                              *)
(***************************************************************************)
IsTestedFormat_nolower(image_format) == image_format \in {fJpeg, <<"p", "n", "g">>}

\* image_format.lower() in ["jpeg", "png"]
IsTestedFormat(image_format) == Lower(image_format) \in {fJpeg, <<"p", "n", "g">>}

OutputFileName_firstdot(original_name, image_format) ==
    LET dots == {i \in 1..Len(original_name) : original_name[i] = "."}
        first == IF dots = {} THEN 0 ELSE CHOOSE i \in dots : \A j \in dots : i <= j
    IN  [i \in 1..Len(original_name) |->
            IF i = first THEN "_" ELSE original_name[i]]
        \o <<".">> \o Lower(Lower(image_format))

\* f"{original_name.replace('.', '_')}.{image_format.lower()}"
OutputFileName(original_name, image_format) ==
    ReplaceDots(original_name) \o <<".">> \o Lower(Lower(image_format))

\* the path image.save writes to
OutputPath(input_file, output_file, image_format) ==
    LET filename == OutputFileName(PathName(input_file), image_format)
    IN  IF output_file = None
        THEN Append(PathParent(input_file), filename)
        ELSE Append(output_file, filename)

\* Image.open succeeds: the file exists and the decoder reads it
Decodable(f, fs, bad) == f \in fs /\ f \notin bad

\* image.save succeeds: the encoder knows the format and the directory exists
Encodable(out, image_format) ==
    /\ Lower(image_format) \in {fJpeg, <<"p", "n", "g">>, fBmp}
    /\ IsDir(PathParent(out))

unlink_missing_ok_false == FALSE

\* Path(input_file).unlink(missing_ok=True)
unlink_missing_ok == TRUE

ShouldUnlink_always(delete) == TRUE

\* if delete:
ShouldUnlink(delete) == delete

(***************************************************************************)
(* find_heic_files.                                                        *)
(***************************************************************************)
dotHeic == <<".", "h", "e", "i", "c">>

MatchesHeic_nolower(file) == EndsWith(file, dotHeic)

\* file.lower().endswith(".heic")
MatchesHeic(file) == EndsWith(Lower(file), dotHeic)

\* one (root, dirs, files) triple of os.walk
WalkFiles(top, fs) == {p[Len(p)] : p \in {q \in fs : q # <<>> /\ Front(q) = top}}
WalkDirs(top) == {p[Len(p)] : p \in {q \in dirs : q # <<>> /\ Front(q) = top}}

RECURSIVE WalkSeqs(_, _), WalkSubSeqs(_, _, _)
\* every list find_heic_files can build for top: os.walk is top-down, and the
\* order of the names of one directory is the file system's
WalkSeqs(top, fs) ==
    LET here == {n \in WalkFiles(top, fs) : MatchesHeic(n)}
    IN  {[i \in 1..Len(fo) |-> Append(top, fo[i])] \o rest :
            fo \in Perms(here),
            rest \in UNION {WalkSubSeqs(top, do, fs) : do \in Perms(WalkDirs(top))}}

WalkSubSeqs(top, ds, fs) ==
    IF ds = <<>> THEN {<<>>}
    ELSE {a \o b : a \in WalkSeqs(Append(top, Head(ds)), fs),
                   b \in WalkSubSeqs(top, Tail(ds), fs)}

find_heic_files(directory, fs) == WalkSeqs(directory, fs)

(***************************************************************************)
(* Initial states.                                                         *)
(***************************************************************************)
Idle ==
    /\ pc = "idle" /\ cpc = "idle" /\ cur = None /\ image = EmptyExif
    /\ heic_files = <<>> /\ idx = 0 /\ exc = "none"
    /\ attempts = <<>> /\ warnings = <<>> /\ saves = <<>> /\ deleted = {}
    /\ removedAt = "none" /\ found = FALSE

Init ==
    /\ args \in ArgSpace
    /\ files \in {fs \in SUBSET CandidateFiles : Cardinality(fs) <= MaxFiles}
    /\ corrupt \in SUBSET files
    /\ files0 = files
    /\ pc = "start" /\ cpc = "idle" /\ cur = None /\ image = EmptyExif
    /\ heic_files = <<>> /\ idx = 0 /\ exc = "none"
    /\ attempts = <<>> /\ warnings = <<>> /\ saves = <<>> /\ deleted = {}
    /\ removedAt = "none" /\ found = FALSE
    /\ exif_in = EmptyExif /\ exif_out = EmptyExif /\ epc = "idle"

(***************************************************************************)
(* main.                                                                   *)
(***************************************************************************)
\* lines 229-235: the input_file branch up to the call of convert_heic
CheckInputFile ==
    /\ pc = "start"
    /\ IF args.input_file = None
       THEN /\ pc' = "dircheck"
            /\ UNCHANGED <<cpc, cur, exc>>
       ELSE IF ~IsFile(args.input_file, files)
       THEN /\ pc' = "raised"
            /\ exc' = "FileNotFoundError"
            /\ UNCHANGED <<cpc, cur>>
       ELSE /\ pc' = "single"
            /\ cpc' = "entry"
            /\ cur' = args.input_file
            /\ UNCHANGED exc
    /\ removedAt' = "none"
    /\ UNCHANGED <<args, files, corrupt, image, heic_files, idx, attempts,
                   warnings, saves, deleted, found, files0, exifVars>>

\* lines 245-249: the input_dir branch up to the call of find_heic_files
CheckInputDir ==
    /\ pc = "dircheck"
    /\ IF args.input_dir = None
       THEN pc' = "done" /\ UNCHANGED exc
       ELSE IF ~IsDir(args.input_dir)
       THEN pc' = "raised" /\ exc' = "NotADirectoryError"
       ELSE pc' = "find" /\ UNCHANGED exc
    /\ UNCHANGED <<args, files, corrupt, cpc, cur, image, heic_files, idx,
                   attempts, warnings, saves, deleted, removedAt, found, files0,
                   exifVars>>

\* line 251
FindHeicFiles ==
    /\ pc = "find"
    /\ \E found_files \in find_heic_files(args.input_dir, files) :
          heic_files' = found_files
    /\ idx' = 1
    /\ found' = TRUE
    /\ pc' = "loop"
    /\ UNCHANGED <<args, files, corrupt, cpc, cur, image, exc, attempts,
                   warnings, saves, deleted, removedAt, files0, exifVars>>

\* lines 252-254: the next iteration of the loop, or its end
LoopNext ==
    /\ pc = "loop"
    /\ IF idx <= Len(heic_files)
       THEN /\ pc' = "batch"
            /\ cpc' = "entry"
            /\ cur' = heic_files[idx]
       ELSE /\ pc' = "done"
            /\ UNCHANGED <<cpc, cur>>
    /\ removedAt' = "none"
    /\ UNCHANGED <<args, files, corrupt, image, heic_files, idx, exc, attempts,
                   warnings, saves, deleted, found, files0, exifVars>>

(***************************************************************************)
(* convert_heic, in the steps between which another process can act.       *)
(***************************************************************************)
InCall == pc \in {"single", "batch"}

\* lines 104-108: the format is lowercased and checked
ConvertEntry ==
    /\ InCall /\ cpc = "entry"
    /\ attempts' = Append(attempts, [file |-> cur, mode |-> pc])
    /\ warnings' = IF IsTestedFormat(args.format)
                   THEN warnings
                   ELSE Append(warnings, [file |-> cur, format |-> Lower(args.format)])
    /\ cpc' = "open"
    /\ UNCHANGED <<args, files, corrupt, pc, cur, image, heic_files, idx, exc,
                   saves, deleted, removedAt, found, files0, exifVars>>

\* lines 110-113: Image.open, then the orientation tag is dropped
ConvertOpen ==
    /\ InCall /\ cpc = "open"
    /\ IF Decodable(cur, files, corrupt)
       THEN /\ image' = remove_exif_orientation(FileExif(cur))
            /\ cpc' = "save"
            /\ UNCHANGED <<pc, exc>>
       ELSE /\ pc' = "raised"
            /\ exc' = "decode"
            /\ UNCHANGED <<image, cpc>>
    /\ UNCHANGED <<args, files, corrupt, cur, heic_files, idx, attempts,
                   warnings, saves, deleted, removedAt, found, files0, exifVars>>

\* lines 115-132: the output path is derived and the image saved
ConvertSave ==
    /\ InCall /\ cpc = "save"
    /\ LET out == OutputPath(cur, args.output_path, Lower(args.format))
           ok == Encodable(out, Lower(args.format))
       IN  /\ saves' = Append(saves,
                  [src |-> cur, out |-> out, exif |-> image,
                   format |-> Lower(args.format), mode |-> pc, ok |-> ok])
           /\ IF ok
              THEN /\ files' = files \cup {out}
                   /\ cpc' = "delete"
                   /\ UNCHANGED <<pc, exc>>
              ELSE /\ pc' = "raised"
                   /\ exc' = "encode"
                   /\ UNCHANGED <<files, cpc>>
    /\ UNCHANGED <<args, corrupt, cur, image, heic_files, idx, attempts,
                   warnings, deleted, removedAt, found, files0, exifVars>>

\* lines 134-136 and the return to main
ConvertDelete ==
    /\ InCall /\ cpc = "delete"
    /\ IF ShouldUnlink(args.delete)
       THEN IF cur \notin files /\ ~unlink_missing_ok
            THEN /\ pc' = "raised"
                 /\ exc' = "unlink"
                 /\ UNCHANGED <<files, deleted, cpc, idx>>
            ELSE /\ files' = files \ {cur}
                 /\ deleted' = deleted \cup {cur}
                 /\ cpc' = "idle"
                 /\ pc' = IF pc = "single" THEN "dircheck" ELSE "loop"
                 /\ idx' = IF pc = "single" THEN idx ELSE idx + 1
                 /\ UNCHANGED exc
       ELSE /\ cpc' = "idle"
            /\ pc' = IF pc = "single" THEN "dircheck" ELSE "loop"
            /\ idx' = IF pc = "single" THEN idx ELSE idx + 1
            /\ UNCHANGED <<files, deleted, exc>>
    /\ UNCHANGED <<args, corrupt, cur, image, heic_files, attempts, warnings,
                   saves, removedAt, found, files0, exifVars>>

\* another process removes the input file of the running call
Remover ==
    /\ InCall /\ cpc \in {"entry", "open", "save", "delete"}
    /\ cur \in files
    /\ files' = files \ {cur}
    /\ removedAt' = cpc
    /\ UNCHANGED <<args, corrupt, pc, cpc, cur, image, heic_files, idx, exc,
                   attempts, warnings, saves, deleted, found, files0, exifVars>>

Next ==
    \/ CheckInputFile
    \/ CheckInputDir
    \/ FindHeicFiles
    \/ LoopNext
    \/ ConvertEntry
    \/ ConvertOpen
    \/ ConvertSave
    \/ ConvertDelete

Spec == Init /\ [][Next]_vars

NextConc == Next \/ Remover

SpecConc == Init /\ [][NextConc]_vars

(***************************************************************************)
(* remove_exif_orientation on its own.                                     *)
(***************************************************************************)
ExifSpace ==
    UNION {[D -> TagValues] : D \in {S \in SUBSET TagIds : Cardinality(S) <= MaxTags}}

InitExif ==
    /\ exif_in \in ExifSpace
    /\ exif_out = EmptyExif
    /\ epc = "call"
    /\ args = [input_file |-> None, input_dir |-> None, output_path |-> None,
               format |-> fJpeg, delete |-> FALSE]
    /\ files = {} /\ corrupt = {} /\ files0 = {}
    /\ Idle

RemoveExifOrientation ==
    /\ epc = "call"
    /\ exif_out' = remove_exif_orientation(exif_in)
    /\ epc' = "returned"
    /\ UNCHANGED <<exif_in, mainVars>>

NextExif == RemoveExifOrientation

SpecExif == InitExif /\ [][NextExif]_vars

(***************************************************************************)
(* The properties.                                                         *)
(***************************************************************************)
Terminated == pc \in {"done", "raised"}

BatchAttempts(f) == {i \in DOMAIN attempts : attempts[i].mode = "batch" /\ attempts[i].file = f}

AllAttempts(f) == {i \in DOMAIN attempts : attempts[i].file = f}

\* the name ends, in any letter case, with .heic (stated character by character)
HeicNameAnyCase(n) ==
    /\ Len(n) >= 5
    /\ n[Len(n) - 4] = "."
    /\ n[Len(n) - 3] \in {"h", "H"}
    /\ n[Len(n) - 2] \in {"e", "E"}
    /\ n[Len(n) - 1] \in {"i", "I"}
    /\ n[Len(n)] \in {"c", "C"}

\* the format is jpeg or png in any letter case (stated character by character)
JpegOrPngAnyCase(f) ==
    \/ /\ Len(f) = 4
       /\ f[1] \in {"j", "J"} /\ f[2] \in {"p", "P"}
       /\ f[3] \in {"e", "E"} /\ f[4] \in {"g", "G"}
    \/ /\ Len(f) = 3
       /\ f[1] \in {"p", "P"} /\ f[2] \in {"n", "N"} /\ f[3] \in {"g", "G"}

\* path f lies below directory d, at any depth
IsUnder(d, f) == Len(f) > Len(d) /\ SubSeq(f, 1, Len(d)) = d

\* C1: in batch mode a failing convert_heic call does not keep the files after it
\* from being attempted, and the batch run ends without an exception: whenever
\* main has ended after find_heic_files returned, it ended normally and every
\* discovered file was passed to convert_heic by the loop.
C1_FailureDoesNotStopBatch ==
    (found /\ Terminated) =>
        /\ pc = "done"
        /\ \A i \in DOMAIN heic_files : BatchAttempts(heic_files[i]) # {}

\* C2: when main raises FileNotFoundError or NotADirectoryError, no convert_heic
\* call has been made, no output written and no source file deleted.
C2_ValidationBeforeAnyConversion ==
    exc \in {"FileNotFoundError", "NotADirectoryError"} =>
        /\ attempts = <<>>
        /\ saves = <<>>
        /\ deleted = {}
        /\ files = files0

\* C3: when main has ended after find_heic_files returned, every file of the
\* returned list has been passed to convert_heic exactly once, and a main that
\* returned has no call still running.
C3_EveryFoundFileAttemptedOnce ==
    (found /\ Terminated) =>
        /\ \A i \in DOMAIN heic_files : Cardinality(AllAttempts(heic_files[i])) = 1
        /\ pc = "done" => cpc = "idle"

\* the running call would decode and encode its input were the file left alone
WouldConvert ==
    /\ cur \notin corrupt
    /\ Encodable(OutputPath(cur, args.output_path, Lower(args.format)), args.format)

ConvertRaised == exc \in {"decode", "encode", "unlink"}

\* C4 as claimed: with delete=True, a call whose input file a concurrent process
\* removed, at whichever point of the call, does not raise.
C4_RemovalAtAnyPointNeverRaises ==
    (args.delete /\ removedAt # "none" /\ WouldConvert) => ~ConvertRaised

\* C4 as amended: with delete=True, a call whose input file a concurrent process
\* removed after the decode (between decode and encode, or between encode and the
\* delete step) does not raise, provided the encode succeeds.
C4_RemovalAfterDecodeNeverRaises ==
    (args.delete /\ removedAt \in {"save", "delete"} /\ WouldConvert) => ~ConvertRaised

C4_Witness ==
    /\ args.delete /\ removedAt = "save" /\ WouldConvert
    /\ cpc = "idle" /\ exc = "none"
    /\ cur \in deleted

\* C5: remove_exif_orientation returns its argument without the Orientation tag
\* and with every other tag and value unchanged; an argument without the tag
\* (the empty mapping included) is returned as it is.
C5_OrientationRemovedOthersKept ==
    epc = "returned" =>
        /\ \A t \in DOMAIN exif_out : TagName(t) # "Orientation"
        /\ 274 \notin DOMAIN exif_out
        /\ DOMAIN exif_out = DOMAIN exif_in \ {274}
        /\ \A t \in DOMAIN exif_in \ {274} : exif_out[t] = exif_in[t]
        /\ 274 \notin DOMAIN exif_in => exif_out = exif_in

C5_Witness ==
    /\ epc = "returned"
    /\ 274 \in DOMAIN exif_in
    /\ Cardinality(DOMAIN exif_in) = 3
    /\ Cardinality(DOMAIN exif_out) = 2

\* C6: the path of every image.save is D / F: F is the name of the input file
\* with every '.' replaced by '_', then '.', then the format in lower case; D is
\* the parent directory of the input file when no output location was given and
\* the output location otherwise. /in/x.heic with no output location and format
\* jpeg gives /in/x_heic.jpeg.
C6_OutputPathDerivation ==
    \A k \in DOMAIN saves :
        LET name == saves[k].src[Len(saves[k].src)]
            out == saves[k].out
            F == out[Len(out)]
            fmt == args.format
        IN  /\ Len(out) >= 1
            /\ Len(F) = Len(name) + 1 + Len(fmt)
            /\ \A i \in 1..Len(name) :
                  F[i] = IF name[i] = "." THEN "_" ELSE name[i]
            /\ F[Len(name) + 1] = "."
            /\ \A j \in 1..Len(fmt) : F[Len(name) + 1 + j] = LowerChar(fmt[j])
            /\ SubSeq(out, 1, Len(out) - 1) =
                  IF args.output_path = None
                  THEN SubSeq(saves[k].src, 1, Len(saves[k].src) - 1)
                  ELSE args.output_path
            /\ (saves[k].src = F1 /\ args.output_path = None /\ fmt = fJpeg) =>
                  out = <<dIn, <<"x", "_", "h", "e", "i", "c", ".", "j", "p", "e", "g">>>>
            /\ (saves[k].src = F3 /\ args.output_path = <<dOut>> /\ fmt = fPNG) =>
                  out = <<dOut, <<"x", "_", "y", "_", "H", "E", "I", "C", ".", "p", "n", "g">>>>

C6_Witness ==
    \E k \in DOMAIN saves :
        /\ saves[k].src = F3 /\ args.output_path = <<dOut>> /\ args.format = fPNG
        /\ saves[k].ok

\* C7: whatever the format, convert_heic goes on to the decode and, when that
\* succeeds, to the encode; the warning is logged in the call, before the decode,
\* exactly when the format is not jpeg or png in any letter case.
C7_UntestedFormatWarnsAndConverts ==
    /\ exc \in {"none", "decode", "encode", "FileNotFoundError", "NotADirectoryError"}
    /\ IF JpegOrPngAnyCase(args.format)
       THEN warnings = <<>>
       ELSE /\ Len(warnings) = Len(attempts)
            /\ \A i \in DOMAIN warnings : warnings[i].file = attempts[i].file
    /\ cpc \in {"open", "save", "delete"} => Len(attempts) >= 1
    /\ cpc = "save" => Decodable(cur, files, corrupt)
    /\ cpc = "delete" =>
          /\ Len(saves) >= 1
          /\ saves[Len(saves)].src = cur
          /\ saves[Len(saves)].ok

C7_Witness ==
    /\ args.format = fBmp
    /\ cpc = "delete"
    /\ Len(warnings) = 1
    /\ saves[Len(saves)].format = fBmp

\* C8: find_heic_files(root) returns every file at any depth under root whose
\* name, in lower case, ends with .heic, each once, and no other path; every
\* list it can return for one tree holds the same set.
C8_FindReturnsExactlyHeicFiles ==
    /\ (pc = "loop" /\ idx = 1) =>
          /\ Range(heic_files) =
                {f \in files : IsUnder(args.input_dir, f) /\ HeicNameAnyCase(f[Len(f)])}
          /\ Len(heic_files) = Cardinality(Range(heic_files))
    /\ pc = "find" =>
          \A a, b \in find_heic_files(args.input_dir, files) : Range(a) = Range(b)

C8_Witness ==
    /\ pc = "loop" /\ idx = 1
    /\ args.input_dir = <<dIn>>
    /\ F2 \in Range(heic_files) /\ F3 \in Range(heic_files)
    /\ F5 \in files
    /\ Cardinality(Range(heic_files)) < Cardinality(files)

\* C9: in a batch run no two distinct input files are written to the same
\* output path.
C9_NoSharedOutputPath ==
    \A i, j \in DOMAIN saves :
        (/\ saves[i].mode = "batch" /\ saves[j].mode = "batch"
         /\ saves[i].ok /\ saves[j].ok
         /\ saves[i].src # saves[j].src)
            => saves[i].out # saves[j].out

\* C10: convert_heic deletes a file only when delete is true and only after the
\* output of that very file was written; a call whose decode or encode failed
\* leaves its input file in place, without delete no file disappears, and no
\* file other than the input of a call is deleted.
C10_DeleteOnlyOwnInputAfterSave ==
    /\ \A f \in deleted :
          /\ args.delete
          /\ \E k \in DOMAIN saves : saves[k].src = f /\ saves[k].ok
          /\ AllAttempts(f) # {}
    /\ exc \in {"decode", "encode"} => (cur \in files /\ cur \notin deleted)
    /\ ~args.delete => (deleted = {} /\ files0 \subseteq files)
    /\ files0 \ files \subseteq deleted

C10_Witness ==
    /\ args.delete
    /\ exc = "decode"
    /\ deleted # {}
    /\ Len(heic_files) >= 2

====
